---- MODULE Spec2Model ----
(***************************************************************************)
(* A model of OBJRenderer (Hololens-OBJRenderer/Content/OBJRenderer.cpp):  *)
(* the OBJ parser run by the constructor, the asynchronous creation of the *)
(* device dependent resources (a PPL task graph of continuations), their   *)
(* release, and the per-frame Update / Render calls.                       *)
(*                                                                         *)
(* Abstractions, stated once:                                              *)
(*  - a COM pointer is NULL or OBJ (it holds some object);                 *)
(*  - a FLOAT is an exact rational <<n, d>>, or NaN = <<0, 0>> (no          *)
(*    rounding); a unit normal n / |n| keeps |n|^2 when it is no square;   *)
(*  - a line of the file is a sequence of one-character strings;           *)
(*  - PositionHologram is left out: m_position keeps its initial value;    *)
(*  - each continuation lambda runs as one step; a lambda whose            *)
(*    ThrowIfFailed throws leaves its task faulted, and the continuations  *)
(*    that depend on a faulted task never run (PPL value continuations).   *)
(*    The runtime ends the process once the faulted tasks are destroyed    *)
(*    (an unobserved exception); that end is not modelled, so the states   *)
(*    after a fault are those the process passes through until then.       *)
(***************************************************************************)
EXTENDS Integers, Sequences, FiniteSets, Bags, TLC

\* ------------------------------------------------------------------------
\* FLOAT arithmetic: exact rationals <<n, d>> with d > 0 in lowest terms;
\* NaN is <<0, 0>>
\* ------------------------------------------------------------------------

NaN == <<0, 0>>

Abs(x) == IF x < 0 THEN -x ELSE x

RECURSIVE GCD(_, _)
GCD(a, b) == IF b = 0 THEN a ELSE GCD(b, a % b)

Rat(n, d) ==
    LET s == IF d < 0 THEN -1 ELSE 1
        g == GCD(Abs(n), Abs(d))
    IN  <<(s * n) \div g, (s * d) \div g>>

IsNaN(a) == a[2] = 0

FAdd(a, b) == IF IsNaN(a) \/ IsNaN(b) THEN NaN
              ELSE Rat(a[1] * b[2] + b[1] * a[2], a[2] * b[2])

FSub(a, b) == IF IsNaN(a) \/ IsNaN(b) THEN NaN
              ELSE Rat(a[1] * b[2] - b[1] * a[2], a[2] * b[2])

FMul(a, b) == IF IsNaN(a) \/ IsNaN(b) THEN NaN
              ELSE Rat(a[1] * b[1], a[2] * b[2])

\* x / 0 is only reached with x = 0 in this program (a zero-length normal, a
\* zero span): 0 / 0 is NaN.
FDiv(a, b) == IF IsNaN(a) \/ IsNaN(b) \/ b[1] = 0 THEN NaN
              ELSE Rat(a[1] * b[2], a[2] * b[1])

FAbs(a) == IF IsNaN(a) THEN NaN ELSE <<Abs(a[1]), a[2]>>

\* operator< of two floats; any comparison with NaN is false
FLess(a, b) == ~IsNaN(a) /\ ~IsNaN(b) /\ a[1] * b[2] < b[1] * a[2]

IsSquare(n) == \E r \in 0..n : r * r = n
ISqrt(n) == CHOOSE r \in 0..n : r * r = n

\* ------------------------------------------------------------------------
\* std::string helpers over sequences of one-character strings
\* ------------------------------------------------------------------------

DigitValue == ("0" :> 0) @@ ("1" :> 1) @@ ("2" :> 2) @@ ("3" :> 3) @@ ("4" :> 4)
              @@ ("5" :> 5) @@ ("6" :> 6) @@ ("7" :> 7) @@ ("8" :> 8) @@ ("9" :> 9)

IsDigit(c) == c \in DOMAIN DigitValue

\* std::string::find_first_of(c): the first position of c, 0 for npos
RECURSIVE FindFrom(_, _, _)
FindFrom(s, c, i) == IF i > Len(s) THEN 0
                     ELSE IF s[i] = c THEN i
                     ELSE FindFrom(s, c, i + 1)

find_first_of(s, c) == FindFrom(s, c, 1)

\* s.substr(0, s.find_first_of(c)): the whole string when c is not in it
substr_before(s, c) ==
    LET p == find_first_of(s, c)
    IN  IF p = 0 THEN s ELSE SubSeq(s, 1, p - 1)

\* the number of digit characters of s from position i on
RECURSIVE DigitRun(_, _)
DigitRun(s, i) == IF i <= Len(s) /\ IsDigit(s[i]) THEN 1 + DigitRun(s, i + 1) ELSE 0

\* the value of the k digits of s that start at position i
RECURSIVE DigitsValue(_, _, _)
DigitsValue(s, i, k) ==
    IF k = 0 THEN 0
    ELSE 10 * DigitsValue(s, i, k - 1) + DigitValue[s[i + k - 1]]

RECURSIVE Pow10(_)
Pow10(k) == IF k = 0 THEN 1 ELSE 10 * Pow10(k - 1)

\* std::stoi: an optional sign, then the longest run of digits; no digit at
\* all throws std::invalid_argument (ok = FALSE).
stoi(s) ==
    LET signed == Len(s) >= 1 /\ s[1] \in {"-", "+"}
        i == IF signed THEN 2 ELSE 1
        k == DigitRun(s, i)
        v == DigitsValue(s, i, k)
    IN  IF k = 0 THEN [ok |-> FALSE, val |-> 0]
        ELSE [ok |-> TRUE, val |-> IF signed /\ s[1] = "-" THEN -v ELSE v]

\* std::stof on decimal literals: an optional sign, digits, an optional
\* fraction; the longest valid prefix is converted, no digit at all throws.
stof(s) ==
    LET signed == Len(s) >= 1 /\ s[1] \in {"-", "+"}
        i == IF signed THEN 2 ELSE 1
        k == DigitRun(s, i)
        dot == i + k <= Len(s) /\ s[i + k] = "."
        f == IF dot THEN DigitRun(s, i + k + 1) ELSE 0
        n == DigitsValue(s, i, k) * Pow10(f) + DigitsValue(s, i + k + 1, f)
    IN  IF k + f = 0 THEN [ok |-> FALSE, val |-> NaN]
        ELSE [ok |-> TRUE,
              val |-> Rat(IF signed /\ s[1] = "-" THEN -n ELSE n, Pow10(f))]

\* A UINT (32 bits, unsigned) as two 16-bit halves <<high, low>>: its value
\* is high * 65536 + low.
Half == 65536

\* (UINT) of an int: the value modulo 2^32
UINT(x) == IF x >= 0 THEN <<x \div Half, x % Half>>
           ELSE <<(Half - 1) - ((-x - 1) \div Half), (Half - 1) - ((-x - 1) % Half)>>

\* (mutant) u - 1 that stops at 0
UDec_Saturating(u) == IF u[2] > 0 THEN <<u[1], u[2] - 1>>
                      ELSE IF u[1] > 0 THEN <<u[1] - 1, Half - 1>>
                      ELSE <<0, 0>>

\* u - 1 in UINT arithmetic: 0 - 1 wraps to 2^32 - 1
UDec(u) == IF u[2] > 0 THEN <<u[1], u[2] - 1>>
           ELSE IF u[1] > 0 THEN <<u[1] - 1, Half - 1>>
           ELSE <<Half - 1, Half - 1>>

\* u < n for a UINT u and a count n (a size_t below 2^31)
ULess(u, n) == u[1] < Half \div 2 /\ u[1] * Half + u[2] < n

\* ------------------------------------------------------------------------
\* parseOBJ
\* ------------------------------------------------------------------------

Zero == <<0, 1>>

\* VertexPositionColor v; : XMFLOAT3's default constructor leaves pos
\* indeterminate (posInit = FALSE) until a `v` record assigns it.
NewVertex(color) == [pos |-> <<Zero, Zero, Zero>>, posInit |-> FALSE, color |-> color]

\* the tokens of a line: std::getline(ss, data, ' ') until it fails. Every
\* space ends a token (two spaces in a row give an empty token); characters
\* left at the end of the line are a last token; nothing left is no token.
RECURSIVE SplitFrom(_, _, _, _)
SplitFrom(line, i, cur, rec) ==
    IF i > Len(line) THEN (IF cur = <<>> THEN rec ELSE Append(rec, cur))
    ELSE IF line[i] = " " THEN SplitFrom(line, i + 1, <<>>, Append(rec, cur))
    ELSE SplitFrom(line, i + 1, Append(cur, line[i]), rec)

Split(line) == SplitFrom(line, 1, <<>>, <<>>)

\* XMFLOAT3(nx / length, ny / length, nz / length), length = sqrt(nx^2+ny^2+nz^2):
\* the quotient when the squared length is a square, else the normal with its
\* squared length (the colour is num / sqrt(len2)).
UnitNormal(nx, ny, nz) ==
    LET len2 == FAdd(FAdd(FMul(nx, nx), FMul(ny, ny)), FMul(nz, nz))
    IN  IF IsSquare(len2[1]) /\ IsSquare(len2[2])
        THEN LET length == <<ISqrt(len2[1]), ISqrt(len2[2])>>
             IN  [num |-> <<FDiv(nx, length), FDiv(ny, length), FDiv(nz, length)>>,
                  len2 |-> <<1, 1>>]
        ELSE [num |-> <<nx, ny, nz>>, len2 |-> len2]

\* A mesh under construction: the two containers and how the parse stands:
\* "ok", "throw" (std::stof / std::stoi threw), "crash" (undefined behaviour
\* that ended the process).
Mesh(vs, is, st) == [vertices |-> vs, indices |-> is, status |-> st]

\* rec[0] == vn
ParseVN(m, rec) ==
    IF Len(rec) # 4 THEN m
    ELSE LET nx == stof(rec[2])
             ny == stof(rec[3])
             nz == stof(rec[4])
         IN  IF ~(nx.ok /\ ny.ok /\ nz.ok) THEN Mesh(m.vertices, m.indices, "throw")
             ELSE Mesh(Append(m.vertices, NewVertex(UnitNormal(nx.val, ny.val, nz.val))),
                       m.indices, "ok")

\* (mutant) the r, g, b of a 7-token record stored as the colour
ParseV_StoresColor(m, rec, lucky) ==
    IF Len(rec) # 4 /\ Len(rec) # 7 THEN m
    ELSE LET nums == [k \in 2..Len(rec) |-> stof(rec[k])]
             n == Len(m.vertices)
         IN  IF \E k \in 2..Len(rec) : ~nums[k].ok
             THEN Mesh(m.vertices, m.indices, "throw")
             ELSE IF n = 0
             THEN Mesh(m.vertices, m.indices, IF lucky THEN "ok" ELSE "crash")
             ELSE Mesh([m.vertices EXCEPT ![n].pos = <<nums[2].val, nums[3].val, nums[4].val>>,
                                          ![n].posInit = TRUE,
                                          ![n].color = IF Len(rec) = 7
                                                       THEN [num |-> <<nums[5].val, nums[6].val, nums[7].val>>,
                                                             len2 |-> <<1, 1>>]
                                                       ELSE @],
                       m.indices, "ok")

\* rec[0] == v. vertices.back() of an empty vector is undefined behaviour:
\* with `lucky` the stray write shows no effect, without it the process ends.
ParseV(m, rec, lucky) ==
    IF Len(rec) # 4 /\ Len(rec) # 7 THEN m
    ELSE LET nums == [k \in 2..Len(rec) |-> stof(rec[k])]
             n == Len(m.vertices)
         IN  IF \E k \in 2..Len(rec) : ~nums[k].ok
             THEN Mesh(m.vertices, m.indices, "throw")
             ELSE IF n = 0
             THEN Mesh(m.vertices, m.indices, IF lucky THEN "ok" ELSE "crash")
             ELSE Mesh([m.vertices EXCEPT ![n].pos = <<nums[2].val, nums[3].val, nums[4].val>>,
                                          ![n].posInit = TRUE],
                       m.indices, "ok")

\* (mutant) the references stored as they are, 1-based
ParseF_NoDecrement(m, rec) ==
    IF Len(rec) # 4 THEN m
    ELSE LET r1 == stoi(substr_before(rec[2], "/"))
             r2 == stoi(substr_before(rec[3], "/"))
             r3 == stoi(substr_before(rec[4], "/"))
         IN  IF ~(r1.ok /\ r2.ok /\ r3.ok) THEN Mesh(m.vertices, m.indices, "throw")
             ELSE Mesh(m.vertices, m.indices \o <<UINT(r3.val), UINT(r2.val), UINT(r1.val)>>, "ok")

\* (mutant) the indices appended in file order
ParseF_FileOrder(m, rec) ==
    IF Len(rec) # 4 THEN m
    ELSE LET r1 == stoi(substr_before(rec[2], "/"))
             r2 == stoi(substr_before(rec[3], "/"))
             r3 == stoi(substr_before(rec[4], "/"))
             v1 == UDec(UINT(r1.val))
             v2 == UDec(UINT(r2.val))
             v3 == UDec(UINT(r3.val))
         IN  IF ~(r1.ok /\ r2.ok /\ r3.ok) THEN Mesh(m.vertices, m.indices, "throw")
             ELSE Mesh(m.vertices, m.indices \o <<v1, v2, v3>>, "ok")

\* (mutant) the last character of each reference taken as the number
ParseF_LastSubIndex(m, rec) ==
    IF Len(rec) # 4 THEN m
    ELSE LET r1 == stoi(<<rec[2][Len(rec[2])]>>)
             r2 == stoi(<<rec[3][Len(rec[3])]>>)
             r3 == stoi(<<rec[4][Len(rec[4])]>>)
             v1 == UDec(UINT(r1.val))
             v2 == UDec(UINT(r2.val))
             v3 == UDec(UINT(r3.val))
         IN  IF ~(r1.ok /\ r2.ok /\ r3.ok) THEN Mesh(m.vertices, m.indices, "throw")
             ELSE Mesh(m.vertices, m.indices \o <<v3, v2, v1>>, "ok")

\* rec[0] == f
ParseF(m, rec) ==
    IF Len(rec) # 4 THEN m
    ELSE LET r1 == stoi(substr_before(rec[2], "/"))
             r2 == stoi(substr_before(rec[3], "/"))
             r3 == stoi(substr_before(rec[4], "/"))
             v1 == UDec(UINT(r1.val))
             v2 == UDec(UINT(r2.val))
             v3 == UDec(UINT(r3.val))
         IN  IF ~(r1.ok /\ r2.ok /\ r3.ok) THEN Mesh(m.vertices, m.indices, "throw")
             ELSE Mesh(m.vertices, m.indices \o <<v3, v2, v1>>, "ok")

\* (mutant) a line with a # parsed like any other
ParseLine_NoCommentSkip(m, line, lucky) ==
    IF line = <<>> THEN m
    ELSE LET rec == Split(line)
         IN  IF rec = <<>> THEN m
             ELSE IF rec[1] = <<"v", "n">> THEN ParseVN(m, rec)
             ELSE IF rec[1] = <<"v">> THEN ParseV(m, rec, lucky)
             ELSE IF rec[1] = <<"f">> THEN ParseF(m, rec)
             ELSE m

\* one iteration of the while loop, for one line of the file
ParseLine(m, line, lucky) ==
    IF line = <<>> \/ find_first_of(line, "#") # 0 THEN m
    ELSE LET rec == Split(line)
         IN  IF rec = <<>> THEN m
             ELSE IF rec[1] = <<"v", "n">> THEN ParseVN(m, rec)
             ELSE IF rec[1] = <<"v">> THEN ParseV(m, rec, lucky)
             ELSE IF rec[1] = <<"f">> THEN ParseF(m, rec)
             ELSE m

RECURSIVE ParseLines(_, _, _, _)
ParseLines(m, lines, i, lucky) ==
    IF i > Len(lines) \/ m.status # "ok" THEN m
    ELSE ParseLines(ParseLine(m, lines[i], lucky), lines, i + 1, lucky)

\* std::max_element / std::min_element over pos[axis] with the strict
\* comparator of the source: the first vertex that reaches the extremum
RECURSIVE MaxFrom(_, _, _, _)
MaxFrom(vs, axis, i, best) ==
    IF i > Len(vs) THEN best
    ELSE MaxFrom(vs, axis, i + 1,
                 IF FLess(vs[best].pos[axis], vs[i].pos[axis]) THEN i ELSE best)

RECURSIVE MinFrom(_, _, _, _)
MinFrom(vs, axis, i, best) ==
    IF i > Len(vs) THEN best
    ELSE MinFrom(vs, axis, i + 1,
                 IF FLess(vs[i].pos[axis], vs[best].pos[axis]) THEN i ELSE best)

MaxPos(vs, axis) == vs[MaxFrom(vs, axis, 2, 1)].pos[axis]
MinPos(vs, axis) == vs[MinFrom(vs, axis, 2, 1)].pos[axis]

Five == <<5, 1>>
Two == <<2, 1>>

\* (mutant) pos /= del
NormalizeAxis_NoFive(vs, axis, x) ==
    LET max == MaxPos(vs, axis)
        min == MinPos(vs, axis)
        del == FAbs(FSub(max, min))
        avg == FDiv(FAdd(max, min), Two)
    IN  FDiv(FSub(x, avg), del)

\* pos -= avg; pos /= 5.0f * del; on one axis
NormalizeAxis(vs, axis, x) ==
    LET max == MaxPos(vs, axis)
        min == MinPos(vs, axis)
        del == FAbs(FSub(max, min))
        avg == FDiv(FAdd(max, min), Two)
    IN  FDiv(FSub(x, avg), FMul(Five, del))

\* Center and scale down: the six extrema, then the loop over the vertices.
\* A vertex whose pos was never assigned makes every extremum, and so every
\* normalized position, indeterminate.
Normalize(vs) ==
    IF \E i \in 1..Len(vs) : ~vs[i].posInit
    THEN [i \in 1..Len(vs) |-> [vs[i] EXCEPT !.posInit = FALSE]]
    ELSE [i \in 1..Len(vs) |->
            [vs[i] EXCEPT !.pos = [axis \in 1..3 |-> NormalizeAxis(vs, axis, vs[i].pos[axis])]]]

\* (mutant) no is_open test
parseOBJ_NoOpenCheck(vs, is, in, lucky) ==
    LET m == ParseLines(Mesh(vs, is, "ok"), in.lines, 1, lucky)
    IN  IF m.status # "ok" THEN m
        ELSE IF m.vertices = <<>>
        THEN Mesh(m.vertices, m.indices, IF lucky THEN "ok" ELSE "crash")
        ELSE Mesh(Normalize(m.vertices), m.indices, "ok")

\* parseOBJ(in) on the containers as they stand. The extrema of an empty
\* vertex sequence dereference end(): undefined behaviour, which either ends
\* the process or (lucky) reads garbage that the empty loop never uses.
parseOBJ(vs, is, in, lucky) ==
    IF ~in.open THEN Mesh(vs, is, "ok")
    ELSE LET m == ParseLines(Mesh(vs, is, "ok"), in.lines, 1, lucky)
         IN  IF m.status # "ok" THEN m
             ELSE IF m.vertices = <<>>
             THEN Mesh(m.vertices, m.indices, IF lucky THEN "ok" ELSE "crash")
             ELSE Mesh(Normalize(m.vertices), m.indices, "ok")

\* ------------------------------------------------------------------------
\* The state
\* ------------------------------------------------------------------------

VARIABLES
    pc,                         \* "new", "constructed", or "failed" (the constructor threw or crashed);
                                \* inside parseOBJ (ParserSpec): "parsing", then "unopened", "parsed",
                                \* "throw" or "crash"
    file,                       \* std::ifstream in(name): [open, lines]; closed once parsed
    vertices, indices,          \* the parsed mesh
    m_loadingComplete,
    m_usingVprtShaders,
    m_vertexShader, m_inputLayout, m_pixelShader, m_geometryShader,
    m_modelConstantBuffer, m_vertexBuffer, m_indexBuffer,
    m_indexCount,
    m_modelConstantBufferData,  \* the staging copy of the model transform
    tasks,                      \* the bag of task graphs that still have a continuation to run
    context,                    \* the ID3D11DeviceContext calls issued by the last step
    usage                       \* history of the calls since the object was last idle (see Usage)

mesh == <<vertices, indices>>
handles == <<m_vertexShader, m_inputLayout, m_pixelShader, m_geometryShader,
             m_modelConstantBuffer, m_vertexBuffer, m_indexBuffer>>
vars == <<pc, file, mesh, m_loadingComplete, m_usingVprtShaders, handles, m_indexCount,
          m_modelConstantBufferData, tasks, context, usage>>

NULL == "null"
OBJ == "obj"

HandleNames == {"m_vertexShader", "m_inputLayout", "m_pixelShader", "m_geometryShader",
                "m_modelConstantBuffer", "m_vertexBuffer", "m_indexBuffer"}

\* How the object has been called since it was last idle (constructed or
\* released with no load outstanding, nothing begun since):
\*   "idle"    nothing begun;
\*   "begun"   CreateDeviceDependentResources called once;
\*   "rebegun" called again with no release in between;
\*   "raced"   ReleaseDeviceDependentResources called while a load was
\*             outstanding (and whatever followed).
Usage == {"idle", "begun", "rebegun", "raced"}

\* the most task graphs outstanding at once
MaxLoads == 1
\* the values of timer.GetTotalSeconds() Update is called with: both sides of
\* a full turn (10 s * 45 deg/s = 450 deg)
Seconds == {1, 10}

\* ------------------------------------------------------------------------
\* The input files of the lifecycle
\* ------------------------------------------------------------------------

\* a line from its tokens, one space between two tokens
RECURSIVE Join(_)
Join(toks) == IF toks = <<>> THEN <<>>
              ELSE IF Len(toks) = 1 THEN toks[1]
              ELSE toks[1] \o <<" ">> \o Join(Tail(toks))

VN == <<"v", "n">>
V == <<"v">>
F == <<"f">>
D(c) == <<c>>

NotOpen == [open |-> FALSE, lines |-> <<>>]
EmptyFile == [open |-> TRUE, lines |-> <<>>]

\* two triangles, with a comment, an `f` record of 3 tokens and sub-indices
Quad == [open |-> TRUE, lines |-> <<
    <<"#", " ", "q">>,
    Join(<<VN, D("0"), D("0"), D("2")>>), Join(<<V, <<"-", "1">>, <<"-", "1">>, D("0")>>),
    Join(<<VN, D("0"), D("0"), D("2")>>), Join(<<V, D("1"), <<"-", "1">>, D("0")>>),
    Join(<<VN, D("0"), D("3"), D("4")>>), Join(<<V, D("1"), D("1"), <<"0", ".", "5">>>>),
    Join(<<VN, D("1"), D("1"), D("0")>>), Join(<<V, <<"-", "1">>, D("1"), D("1")>>),
    Join(<<F, D("1"), D("2")>>),
    Join(<<F, <<"1", "/", "1", "/", "1">>, <<"2", "/", "2", "/", "2">>, <<"3", "/", "3", "/", "3">>>>),
    Join(<<F, D("1"), D("3"), D("4")>>) >>]

Files == {NotOpen, EmptyFile, Quad}

\* ------------------------------------------------------------------------
\* Construction and CreateDeviceDependentResources
\* ------------------------------------------------------------------------

\* The members as their declarations leave them (OBJRenderer.h): the flag
\* false, the ComPtrs empty, no transform staged yet.
MemberDefaults ==
    /\ m_loadingComplete = FALSE
    /\ m_usingVprtShaders = FALSE
    /\ m_vertexShader = NULL /\ m_inputLayout = NULL /\ m_pixelShader = NULL
    /\ m_geometryShader = NULL /\ m_modelConstantBuffer = NULL
    /\ m_vertexBuffer = NULL /\ m_indexBuffer = NULL
    /\ m_indexCount = UINT(0)
    /\ m_modelConstantBufferData = [model |-> <<>>]

Init ==
    /\ pc = "new"
    /\ file \in Files
    /\ vertices = <<>> /\ indices = <<>>
    /\ MemberDefaults
    /\ tasks = EmptyBag
    /\ context = <<>>
    /\ usage = "idle"

\* The task graph CreateDeviceDependentResources builds: createVSTask,
\* createPSTask, createGSTask (only without VPRT), and createOBJTask behind
\* their join; each "pending", "done" or "faulted".
TaskGraph(vprt) ==
    [vprt |-> vprt, vs |-> "pending", ps |-> "pending",
     gs |-> IF vprt THEN "none" ELSE "pending", obj |-> "pending"]

\* (mutant) the join of two tasks whatever the device
shaderTaskGroup_JoinOfTwo(g) == g.ps = "done" /\ g.vs = "done"

\* (mutant) the join of three tasks whatever the device
shaderTaskGroup_JoinOfThree(g) == g.ps = "done" /\ g.vs = "done" /\ g.gs = "done"

\* shaderTaskGroup: createPSTask && createVSTask, && createGSTask without
\* VPRT, has completed
shaderTaskGroup(g) ==
    IF g.vprt THEN g.ps = "done" /\ g.vs = "done"
    ELSE g.ps = "done" /\ g.vs = "done" /\ g.gs = "done"

\* some continuation of the graph can still run
Outstanding(g) ==
    \/ g.vs = "pending" \/ g.ps = "pending" \/ g.gs = "pending"
    \/ shaderTaskGroup(g) /\ g.obj # "faulted"

LoadOutstanding == tasks # EmptyBag

\* (mutant) CreateDeviceDependentResources clearing the flag
BeginLoad_ClearsFlag(vprt) ==
    /\ m_usingVprtShaders' = vprt
    /\ m_loadingComplete' = FALSE
    /\ tasks' = tasks (+) SetToBag({TaskGraph(vprt)})
    /\ context' = <<>>
    /\ usage' = CASE usage = "idle" -> "begun"
                   [] usage = "begun" -> "rebegun"
                   [] OTHER -> usage
    /\ UNCHANGED <<handles, m_indexCount, m_modelConstantBufferData>>

\* the body of CreateDeviceDependentResources, the device reporting `vprt`
BeginLoad(vprt) ==
    /\ m_usingVprtShaders' = vprt
    /\ tasks' = tasks (+) SetToBag({TaskGraph(vprt)})
    /\ context' = <<>>
    /\ usage' = CASE usage = "idle" -> "begun"
                   [] usage = "begun" -> "rebegun"
                   [] OTHER -> usage
    /\ UNCHANGED <<m_loadingComplete, handles, m_indexCount, m_modelConstantBufferData>>

\* OBJRenderer::OBJRenderer: parseOBJ(in), then CreateDeviceDependentResources()
Construct ==
    /\ pc = "new"
    /\ \E lucky \in BOOLEAN :
         LET m == parseOBJ(vertices, indices, file, lucky)
         IN  /\ vertices' = m.vertices
             /\ indices' = m.indices
             /\ file' = IF m.status = "ok" THEN NotOpen ELSE file
             /\ IF m.status = "ok"
                THEN /\ pc' = "constructed"
                     /\ \E vprt \in BOOLEAN : BeginLoad(vprt)
                ELSE /\ pc' = "failed"
                     /\ UNCHANGED <<m_loadingComplete, m_usingVprtShaders, handles, m_indexCount,
                                    m_modelConstantBufferData, tasks, context, usage>>

CreateDeviceDependentResources ==
    /\ pc = "constructed"
    /\ BagCardinality(tasks) < MaxLoads
    /\ \E vprt \in BOOLEAN : BeginLoad(vprt)
    /\ UNCHANGED <<pc, file, mesh>>

\* ------------------------------------------------------------------------
\* The continuations
\* ------------------------------------------------------------------------

\* the bag with graph g moved on to g2; a graph with nothing left to run is dropped
Continue(g, g2) ==
    (tasks (-) SetToBag({g})) (+) (IF Outstanding(g2) THEN SetToBag({g2}) ELSE EmptyBag)

\* what a continuation leaves alone besides the members it assigns
ContinuationFrame ==
    /\ context' = <<>>
    /\ UNCHANGED <<pc, file, mesh, m_usingVprtShaders, m_modelConstantBufferData, usage>>

\* (mutant) the continuation runs again on a task that is done
createVSTask_Rerun(g, r) ==
    /\ g.vs \in {"pending", "done"}
    /\ m_vertexShader' = CASE r = "noBytes" -> m_vertexShader
                           [] r = "noShader" -> NULL
                           [] OTHER -> OBJ
    /\ m_inputLayout' = CASE r = "ok" -> OBJ
                          [] r = "noLayout" -> NULL
                          [] OTHER -> m_inputLayout
    /\ tasks' = Continue(g, [g EXCEPT !.vs = IF r = "ok" THEN "done" ELSE "faulted"])
    /\ UNCHANGED <<m_loadingComplete, m_pixelShader, m_geometryShader, m_modelConstantBuffer,
                   m_vertexBuffer, m_indexBuffer, m_indexCount>>
    /\ ContinuationFrame

\* loadVSTask.then: CreateVertexShader, CreateInputLayout. `r` is how far it
\* gets: "noBytes" (ReadDataAsync faulted, the lambda never runs),
\* "noShader", "noLayout" (that call failed and ThrowIfFailed threw), "ok".
\* &m_x releases what m_x held; a failed call leaves it empty.
createVSTask(g, r) ==
    /\ g.vs = "pending"
    /\ m_vertexShader' = CASE r = "noBytes" -> m_vertexShader
                           [] r = "noShader" -> NULL
                           [] OTHER -> OBJ
    /\ m_inputLayout' = CASE r = "ok" -> OBJ
                          [] r = "noLayout" -> NULL
                          [] OTHER -> m_inputLayout
    /\ tasks' = Continue(g, [g EXCEPT !.vs = IF r = "ok" THEN "done" ELSE "faulted"])
    /\ UNCHANGED <<m_loadingComplete, m_pixelShader, m_geometryShader, m_modelConstantBuffer,
                   m_vertexBuffer, m_indexBuffer, m_indexCount>>
    /\ ContinuationFrame

\* loadPSTask.then: CreatePixelShader, CreateBuffer (the constant buffer)
createPSTask(g, r) ==
    /\ g.ps = "pending"
    /\ m_pixelShader' = CASE r = "noBytes" -> m_pixelShader
                          [] r = "noShader" -> NULL
                          [] OTHER -> OBJ
    /\ m_modelConstantBuffer' = CASE r = "ok" -> OBJ
                                  [] r = "noBuffer" -> NULL
                                  [] OTHER -> m_modelConstantBuffer
    /\ tasks' = Continue(g, [g EXCEPT !.ps = IF r = "ok" THEN "done" ELSE "faulted"])
    /\ UNCHANGED <<m_loadingComplete, m_vertexShader, m_inputLayout, m_geometryShader,
                   m_vertexBuffer, m_indexBuffer, m_indexCount>>
    /\ ContinuationFrame

\* loadGSTask.then: CreateGeometryShader; the task exists only without VPRT
createGSTask(g, r) ==
    /\ g.gs = "pending"
    /\ m_geometryShader' = CASE r = "noBytes" -> m_geometryShader
                             [] r = "noShader" -> NULL
                             [] OTHER -> OBJ
    /\ tasks' = Continue(g, [g EXCEPT !.gs = IF r = "ok" THEN "done" ELSE "faulted"])
    /\ UNCHANGED <<m_loadingComplete, m_vertexShader, m_inputLayout, m_pixelShader,
                   m_modelConstantBuffer, m_vertexBuffer, m_indexBuffer, m_indexCount>>
    /\ ContinuationFrame

\* shaderTaskGroup.then: the vertex buffer, m_indexCount, the index buffer
createOBJTask(g, r) ==
    /\ shaderTaskGroup(g)
    /\ g.obj = "pending"
    /\ m_vertexBuffer' = IF r = "noVertexBuffer" THEN NULL ELSE OBJ
    /\ m_indexCount' = IF r = "noVertexBuffer" THEN m_indexCount ELSE UINT(Len(indices))
    /\ m_indexBuffer' = CASE r = "ok" -> OBJ
                          [] r = "noIndexBuffer" -> NULL
                          [] OTHER -> m_indexBuffer
    /\ tasks' = Continue(g, [g EXCEPT !.obj = IF r = "ok" THEN "done" ELSE "faulted"])
    /\ UNCHANGED <<m_loadingComplete, m_vertexShader, m_inputLayout, m_pixelShader,
                   m_geometryShader, m_modelConstantBuffer>>
    /\ ContinuationFrame

\* (mutant) the flag set behind the shader join instead of createOBJTask
loadingComplete_AfterShaders(g) ==
    /\ shaderTaskGroup(g)
    /\ m_loadingComplete' = TRUE
    /\ tasks' = tasks (-) SetToBag({g})
    /\ UNCHANGED <<handles, m_indexCount>>
    /\ ContinuationFrame

\* createOBJTask.then: m_loadingComplete = true; the graph has run
loadingComplete(g) ==
    /\ g.obj = "done"
    /\ m_loadingComplete' = TRUE
    /\ tasks' = tasks (-) SetToBag({g})
    /\ UNCHANGED <<handles, m_indexCount>>
    /\ ContinuationFrame

\* ------------------------------------------------------------------------
\* ReleaseDeviceDependentResources, Update, Render
\* ------------------------------------------------------------------------

\* (mutant) m_loadingComplete left as it is
Release_KeepsFlag ==
    /\ pc = "constructed"
    /\ UNCHANGED m_loadingComplete
    /\ m_usingVprtShaders' = FALSE
    /\ m_vertexShader' = NULL
    /\ m_inputLayout' = NULL
    /\ m_pixelShader' = NULL
    /\ m_geometryShader' = NULL
    /\ m_modelConstantBuffer' = NULL
    /\ m_vertexBuffer' = NULL
    /\ m_indexBuffer' = NULL
    /\ context' = <<>>
    /\ usage' = IF LoadOutstanding THEN "raced" ELSE "idle"
    /\ UNCHANGED <<pc, file, mesh, m_indexCount, m_modelConstantBufferData, tasks>>

\* (mutant) m_usingVprtShaders left as it is
Release_KeepsVprt ==
    /\ pc = "constructed"
    /\ m_loadingComplete' = FALSE
    /\ UNCHANGED m_usingVprtShaders
    /\ m_vertexShader' = NULL
    /\ m_inputLayout' = NULL
    /\ m_pixelShader' = NULL
    /\ m_geometryShader' = NULL
    /\ m_modelConstantBuffer' = NULL
    /\ m_vertexBuffer' = NULL
    /\ m_indexBuffer' = NULL
    /\ context' = <<>>
    /\ usage' = IF LoadOutstanding THEN "raced" ELSE "idle"
    /\ UNCHANGED <<pc, file, mesh, m_indexCount, m_modelConstantBufferData, tasks>>

\* The task graphs are not cancelled: their continuations still run.
ReleaseDeviceDependentResources ==
    /\ pc = "constructed"
    /\ m_loadingComplete' = FALSE
    /\ m_usingVprtShaders' = FALSE
    /\ m_vertexShader' = NULL
    /\ m_inputLayout' = NULL
    /\ m_pixelShader' = NULL
    /\ m_geometryShader' = NULL
    /\ m_modelConstantBuffer' = NULL
    /\ m_vertexBuffer' = NULL
    /\ m_indexBuffer' = NULL
    /\ context' = <<>>
    /\ usage' = IF LoadOutstanding THEN "raced" ELSE "idle"
    /\ UNCHANGED <<pc, file, mesh, m_indexCount, m_modelConstantBufferData, tasks>>

\* m_degreesPerSecond and m_position as OBJRenderer.h initializes them
m_degreesPerSecond == 45
m_position == <<0, 0, -2>>

\* transpose(rotationY(-radians) * translation(m_position)), the angle
\* fmod(seconds * radiansPerSecond, 2 pi) kept in degrees
ModelTransform(seconds) ==
    [model |-> <<-((seconds * m_degreesPerSecond) % 360), m_position>>]

Call(fn, args) == [fn |-> fn, args |-> args]

Update(seconds) ==
    /\ pc = "constructed"
    /\ m_modelConstantBufferData' = ModelTransform(seconds)
    /\ context' = IF ~m_loadingComplete THEN <<>>
                  ELSE <<Call("UpdateSubresource",
                              <<m_modelConstantBuffer, ModelTransform(seconds)>>)>>
    /\ UNCHANGED <<pc, file, mesh, m_loadingComplete, m_usingVprtShaders, handles,
                   m_indexCount, tasks, usage>>

\* (mutant) no early return while loading
Render_NoGate ==
    /\ pc = "constructed"
    /\ context' =
         IF FALSE THEN <<>>
         ELSE <<Call("IASetVertexBuffers", <<m_vertexBuffer>>),
                Call("IASetIndexBuffer", <<m_indexBuffer>>),
                Call("IASetPrimitiveTopology", <<"TRIANGLELIST">>),
                Call("IASetInputLayout", <<m_inputLayout>>),
                Call("VSSetShader", <<m_vertexShader>>),
                Call("VSSetConstantBuffers", <<m_modelConstantBuffer>>)>>
              \o (IF ~m_usingVprtShaders
                  THEN <<Call("GSSetShader", <<m_geometryShader>>)>> ELSE <<>>)
              \o <<Call("PSSetShader", <<m_pixelShader>>),
                   Call("DrawIndexedInstanced", <<m_indexCount, 2, 0, 0, 0>>)>>
    /\ UNCHANGED <<pc, file, mesh, m_loadingComplete, m_usingVprtShaders, handles,
                   m_indexCount, m_modelConstantBufferData, tasks, usage>>

\* (mutant) the geometry shader bound on the VPRT path
Render_GSWithVprt ==
    /\ pc = "constructed"
    /\ context' =
         IF ~m_loadingComplete THEN <<>>
         ELSE <<Call("IASetVertexBuffers", <<m_vertexBuffer>>),
                Call("IASetIndexBuffer", <<m_indexBuffer>>),
                Call("IASetPrimitiveTopology", <<"TRIANGLELIST">>),
                Call("IASetInputLayout", <<m_inputLayout>>),
                Call("VSSetShader", <<m_vertexShader>>),
                Call("VSSetConstantBuffers", <<m_modelConstantBuffer>>)>>
              \o (IF m_usingVprtShaders
                  THEN <<Call("GSSetShader", <<m_geometryShader>>)>> ELSE <<>>)
              \o <<Call("PSSetShader", <<m_pixelShader>>),
                   Call("DrawIndexedInstanced", <<m_indexCount, 2, 0, 0, 0>>)>>
    /\ UNCHANGED <<pc, file, mesh, m_loadingComplete, m_usingVprtShaders, handles,
                   m_indexCount, m_modelConstantBufferData, tasks, usage>>

Render ==
    /\ pc = "constructed"
    /\ context' =
         IF ~m_loadingComplete THEN <<>>
         ELSE <<Call("IASetVertexBuffers", <<m_vertexBuffer>>),
                Call("IASetIndexBuffer", <<m_indexBuffer>>),
                Call("IASetPrimitiveTopology", <<"TRIANGLELIST">>),
                Call("IASetInputLayout", <<m_inputLayout>>),
                Call("VSSetShader", <<m_vertexShader>>),
                Call("VSSetConstantBuffers", <<m_modelConstantBuffer>>)>>
              \o (IF ~m_usingVprtShaders
                  THEN <<Call("GSSetShader", <<m_geometryShader>>)>> ELSE <<>>)
              \o <<Call("PSSetShader", <<m_pixelShader>>),
                   Call("DrawIndexedInstanced", <<m_indexCount, 2, 0, 0, 0>>)>>
    /\ UNCHANGED <<pc, file, mesh, m_loadingComplete, m_usingVprtShaders, handles,
                   m_indexCount, m_modelConstantBufferData, tasks, usage>>

\* ------------------------------------------------------------------------
\* The specifications
\* ------------------------------------------------------------------------

VSResults == {"ok", "noBytes", "noShader", "noLayout"}
PSResults == {"ok", "noBytes", "noShader", "noBuffer"}
GSResults == {"ok", "noBytes", "noShader"}
OBJResults == {"ok", "noVertexBuffer", "noIndexBuffer"}

RunVS == \E g \in BagToSet(tasks) : \E r \in VSResults : createVSTask(g, r)
RunPS == \E g \in BagToSet(tasks) : \E r \in PSResults : createPSTask(g, r)
RunGS == \E g \in BagToSet(tasks) : \E r \in GSResults : createGSTask(g, r)
RunOBJ == \E g \in BagToSet(tasks) : \E r \in OBJResults : createOBJTask(g, r)
RunComplete == \E g \in BagToSet(tasks) : loadingComplete(g)
Frame == (\E seconds \in Seconds : Update(seconds)) \/ Render

\* every public method callable at any time, every continuation free to run
\* whenever its antecedents are done
Next ==
    \/ Construct
    \/ CreateDeviceDependentResources
    \/ RunVS \/ RunPS \/ RunGS \/ RunOBJ \/ RunComplete
    \/ ReleaseDeviceDependentResources
    \/ Frame

Spec == Init /\ [][Next]_vars

\* A load in which every read and every creation succeeds, with no further
\* call of CreateDeviceDependentResources and no release: the continuations
\* are scheduled whenever they stay enabled (the PPL scheduler runs every
\* ready continuation).
StepVS == \E g \in BagToSet(tasks) : createVSTask(g, "ok")
StepPS == \E g \in BagToSet(tasks) : createPSTask(g, "ok")
StepGS == \E g \in BagToSet(tasks) : createGSTask(g, "ok")
StepOBJ == \E g \in BagToSet(tasks) : createOBJTask(g, "ok")

LiveNext ==
    \/ Construct
    \/ StepVS \/ StepPS \/ StepGS \/ StepOBJ \/ RunComplete
    \/ Frame

LiveSpec ==
    /\ Init /\ [][LiveNext]_vars
    /\ WF_vars(StepVS) /\ WF_vars(StepPS) /\ WF_vars(StepGS)
    /\ WF_vars(StepOBJ) /\ WF_vars(RunComplete)

\* ------------------------------------------------------------------------
\* Properties
\* ------------------------------------------------------------------------

\* every handle Render binds holds an object: the geometry shader only
\* counts without VPRT
ResourcesCreated ==
    /\ m_vertexShader = OBJ /\ m_inputLayout = OBJ /\ m_pixelShader = OBJ
    /\ m_modelConstantBuffer = OBJ /\ m_vertexBuffer = OBJ /\ m_indexBuffer = OBJ
    /\ (~m_usingVprtShaders => m_geometryShader = OBJ)

\* the object is used as its lifecycle intends: CreateDeviceDependentResources
\* at most once since construction or the last release, and no release while
\* a load was outstanding
UsedInOrder == usage \in {"idle", "begun"}

\* C1 as stated: with no release during an outstanding load, ready implies
\* that the vertex shader, input layout, pixel shader, constant buffer, vertex
\* buffer and index buffer are created, and the geometry shader too without
\* VPRT. (Refuted: a second CreateDeviceDependentResources while ready.)
C1_ReadyImpliesResources_AsStated ==
    usage # "raced" => (m_loadingComplete => ResourcesCreated)

\* C1 amended: the same, when moreover CreateDeviceDependentResources is
\* called at most once since construction or the last release.
C1_ReadyImpliesResources ==
    UsedInOrder => (m_loadingComplete => ResourcesCreated)

\* a load without VPRT has completed: ready, all seven handles created
C1_Witness ==
    /\ usage = "begun" /\ m_loadingComplete /\ ~m_usingVprtShaders
    /\ ResourcesCreated /\ m_geometryShader = OBJ

\* C2: within one load, createOBJTask does not begin until createVSTask and
\* createPSTask are done, and createGSTask too without VPRT (it is no part of
\* the join with VPRT); ready is set only by a step of a load whose
\* createOBJTask is done.
C2_Order ==
    /\ [](\A g \in BagToSet(tasks) :
            g.obj # "pending" =>
              /\ g.vs = "done" /\ g.ps = "done"
              /\ (IF g.vprt THEN g.gs = "none" ELSE g.gs = "done"))
    /\ [][(~m_loadingComplete /\ m_loadingComplete') =>
            \E g \in BagToSet(tasks) : g.obj = "done" /\ tasks' = tasks (-) SetToBag({g})]_vars

\* the buffers of a load without VPRT are built, behind the join of three
C2_Witness ==
    \E g \in BagToSet(tasks) : ~g.vprt /\ g.obj = "done" /\ g.gs = "done"

\* C3 as stated: immediately after CreateDeviceDependentResources returns,
\* ready is false, from every state it can be called in. (Refuted: it never
\* writes the flag, which stays true when it was.)
C3_NotReadyAfterBegin_AsStated ==
    [][(Construct \/ CreateDeviceDependentResources) => ~m_loadingComplete']_vars

\* C3 amended: CreateDeviceDependentResources leaves ready as it was (false
\* after construction or a release, still true when called while ready); ready
\* becomes true only by the last step of a load all of whose shader and buffer
\* steps are done.
C3_BeginLeavesReady ==
    /\ [][(Construct \/ CreateDeviceDependentResources) =>
            m_loadingComplete' = m_loadingComplete]_vars
    /\ [][(~m_loadingComplete /\ m_loadingComplete') =>
            \E g \in BagToSet(tasks) :
               /\ g.vs = "done" /\ g.ps = "done" /\ g.gs \in {"done", "none"}
               /\ g.obj = "done"]_vars
    /\ [](usage = "begun" /\ LoadOutstanding => ~m_loadingComplete)

\* a load has just begun from the released state: nothing has run, not ready
C3_Witness ==
    /\ usage = "begun" /\ ~m_loadingComplete
    /\ \E g \in BagToSet(tasks) : g.vs = "pending" /\ g.ps = "pending" /\ g.obj = "pending"

\* C4: Render and Update called while not ready issue no device context call
\* (no draw, no upload); Update still rewrites the staging constant data.
C4_NoContextCallUnlessReady ==
    /\ [](context # <<>> => m_loadingComplete)
    /\ [][\A seconds \in Seconds :
            (Update(seconds) /\ ~m_loadingComplete) =>
               /\ context' = <<>>
               /\ m_modelConstantBufferData' = ModelTransform(seconds)
               /\ m_modelConstantBufferData' # [model |-> <<>>]]_vars
    /\ [][(Render /\ ~m_loadingComplete) =>
            (context' = <<>> /\ UNCHANGED m_modelConstantBufferData)]_vars

\* Update has staged a transform while the load is still outstanding
C4_Witness ==
    /\ ~m_loadingComplete /\ LoadOutstanding /\ context = <<>>
    /\ m_modelConstantBufferData = ModelTransform(1)

\* C5: after CreateDeviceDependentResources, if every read and creation
\* succeeds, every enabled continuation is eventually run and nothing is
\* released, ready eventually becomes true, with VPRT and without; meanwhile
\* the caller is never blocked: Update and Render stay callable.
C5_EventuallyReady ==
    /\ \A vprt \in BOOLEAN :
         (LoadOutstanding /\ m_usingVprtShaders = vprt)
            ~> (m_loadingComplete /\ m_usingVprtShaders = vprt /\ ~LoadOutstanding)
    /\ [](LoadOutstanding => ENABLED Render /\ \A seconds \in Seconds : ENABLED Update(seconds))

\* a load with VPRT (a join of two shader tasks) has made the object ready
C5_Witness == m_loadingComplete /\ m_usingVprtShaders /\ ~LoadOutstanding /\ ResourcesCreated

\* a bind call of Render and the handle it binds
BindCalls == {"IASetVertexBuffers", "IASetIndexBuffer", "IASetInputLayout", "VSSetShader",
              "VSSetConstantBuffers", "GSSetShader", "PSSetShader"}

BindsNull(log) ==
    \E i \in 1..Len(log) : log[i].fn \in BindCalls /\ log[i].args[1] = NULL

Released ==
    /\ ~m_loadingComplete /\ ~m_usingVprtShaders
    /\ m_vertexShader = NULL /\ m_inputLayout = NULL /\ m_pixelShader = NULL
    /\ m_geometryShader = NULL /\ m_modelConstantBuffer = NULL
    /\ m_vertexBuffer = NULL /\ m_indexBuffer = NULL

\* C6 as stated: ReleaseDeviceDependentResources while a load is outstanding
\* is safe: no later state is ready with a required handle empty, and
\* Render never binds an empty handle. (Refuted: the continuations still run.)
C6_ReleaseDuringLoadSafe_AsStated ==
    usage = "raced" => (m_loadingComplete => ResourcesCreated) /\ ~BindsNull(context)

\* C6 amended: ReleaseDeviceDependentResources is safe when no load is
\* outstanding: after it, until the next CreateDeviceDependentResources, the
\* object is not ready, every handle is empty and no continuation is left to
\* run; and in an object used in order Render never binds an empty handle.
C6_ReleaseSafeWhenNoLoad ==
    /\ (usage = "idle" => Released /\ ~LoadOutstanding)
    /\ (UsedInOrder => ~BindsNull(context))

\* released after a load that had built its buffers, nothing begun since
C6_Witness ==
    pc = "constructed" /\ usage = "idle" /\ m_indexCount = UINT(6)

\* C7: with no load outstanding, ReleaseDeviceDependentResources leaves
\* ready false, m_usingVprtShaders false and all seven handles empty, from any
\* state; the mesh and the staging constant data are unchanged; released
\* again, nothing changes.
C7_Release ==
    /\ [][(ReleaseDeviceDependentResources /\ ~LoadOutstanding) =>
            /\ Released'
            /\ UNCHANGED <<vertices, indices, m_modelConstantBufferData>>]_vars
    /\ [][(ReleaseDeviceDependentResources /\ ~LoadOutstanding /\ Released) =>
            UNCHANGED <<pc, file, mesh, m_loadingComplete, m_usingVprtShaders, handles,
                        m_indexCount, m_modelConstantBufferData, tasks>>]_vars

\* released with the mesh and a staged transform still there
C7_Witness ==
    /\ pc = "constructed" /\ usage = "idle" /\ Released
    /\ Len(vertices) = 4 /\ Len(indices) = 6
    /\ m_modelConstantBufferData = ModelTransform(1)

\* C8 as stated: when a creation call of a load fails, ready never becomes
\* true for it and every handle the load created is released: the only load
\* of an object used in order has ended without ready => no handle is held.
\* (Refuted: nothing releases what the load had created.)
C8_FailureReleasesAll ==
    (usage = "begun" /\ ~LoadOutstanding /\ ~m_loadingComplete) =>
        /\ m_vertexShader = NULL /\ m_inputLayout = NULL /\ m_pixelShader = NULL
        /\ m_geometryShader = NULL /\ m_modelConstantBuffer = NULL
        /\ m_vertexBuffer = NULL /\ m_indexBuffer = NULL

\* the steps that create each handle
CreatesVertexShader == \E g \in BagToSet(tasks) : \E r \in {"ok", "noLayout"} : createVSTask(g, r)
CreatesInputLayout == \E g \in BagToSet(tasks) : createVSTask(g, "ok")
CreatesPixelShader == \E g \in BagToSet(tasks) : \E r \in {"ok", "noBuffer"} : createPSTask(g, r)
CreatesConstantBuffer == \E g \in BagToSet(tasks) : createPSTask(g, "ok")
CreatesGeometryShader == \E g \in BagToSet(tasks) : createGSTask(g, "ok")
CreatesVertexBuffer == \E g \in BagToSet(tasks) : \E r \in {"ok", "noIndexBuffer"} : createOBJTask(g, r)
CreatesIndexBuffer == \E g \in BagToSet(tasks) : createOBJTask(g, "ok")

\* each creation fills a handle that was empty
CreatedOnce ==
    /\ CreatesVertexShader => m_vertexShader = NULL
    /\ CreatesInputLayout => m_inputLayout = NULL
    /\ CreatesPixelShader => m_pixelShader = NULL
    /\ CreatesConstantBuffer => m_modelConstantBuffer = NULL
    /\ CreatesGeometryShader => m_geometryShader = NULL
    /\ CreatesVertexBuffer => m_vertexBuffer = NULL
    /\ CreatesIndexBuffer => m_indexBuffer = NULL

\* C9 as stated: in any sequence of CreateDeviceDependentResources and
\* ReleaseDeviceDependentResources calls, each handle is created at most once
\* between two releases. (Refuted: a second CreateDeviceDependentResources with
\* no release in between creates every handle again.)
C9_CreatedOncePerGeneration_AsStated == [][CreatedOnce]_vars

\* C9 amended: when CreateDeviceDependentResources is called at most once
\* between two releases and nothing is released during a load, each creation
\* fills an empty handle (so each is created at most once between releases);
\* and ready, once true, falls only by a release, so it rises at most once
\* between releases.
C9_CreatedOncePerGeneration ==
    /\ [][UsedInOrder' => CreatedOnce]_vars
    /\ [][(UsedInOrder' /\ ~m_loadingComplete /\ m_loadingComplete') =>
            (usage = "begun" /\ ResourcesCreated')]_vars
    /\ [][(m_loadingComplete /\ ~m_loadingComplete') => ReleaseDeviceDependentResources]_vars

\* a generation with VPRT is complete: six handles created, no geometry shader
C9_Witness ==
    /\ usage = "begun" /\ m_loadingComplete /\ m_usingVprtShaders
    /\ ResourcesCreated /\ m_geometryShader = NULL

\* the `f` records parseOBJ accepts: lines that are not skipped and split in
\* exactly 4 tokens, the first of them f
AcceptedFaces(in) ==
    Cardinality({i \in 1..Len(in.lines) :
        /\ in.lines[i] # <<>>
        /\ \A k \in 1..Len(in.lines[i]) : in.lines[i][k] # "#"
        /\ LET rec == Split(in.lines[i])
           IN  Len(rec) = 4 /\ rec[1] = <<"f">>})

\* the calls of a log with the given name
CallsOf(log, fn) == {i \in 1..Len(log) : log[i].fn = fn}

\* C10: Render called while ready issues exactly one DrawIndexedInstanced,
\* with instance count 2 and an index count equal to the number of indices
\* the parser produced (3 for each accepted face record), and binds the
\* geometry shader exactly when m_usingVprtShaders is false.
C10_Draw ==
    /\ [][(Render /\ m_loadingComplete) =>
            /\ Cardinality(CallsOf(context', "DrawIndexedInstanced")) = 1
            /\ \A i \in CallsOf(context', "DrawIndexedInstanced") :
                  /\ i = Len(context')
                  /\ context'[i].args = <<UINT(Len(indices)), 2, 0, 0, 0>>
            /\ (CallsOf(context', "GSSetShader") # {} <=> ~m_usingVprtShaders)]_vars
    /\ [][(pc = "new" /\ pc' = "constructed") =>
            Len(indices') = 3 * AcceptedFaces(file)]_vars

\* Render has drawn the two triangles with VPRT: 6 indices, 2 instances, no
\* geometry shader bound
C10_Witness ==
    /\ m_usingVprtShaders /\ Len(indices) = 6
    /\ CallsOf(context, "GSSetShader") = {}
    /\ \E i \in CallsOf(context, "DrawIndexedInstanced") :
          context[i].args = <<UINT(6), 2, 0, 0, 0>>

\* ------------------------------------------------------------------------
\* parseOBJ line by line
\* ------------------------------------------------------------------------

\* the longest file of the enumeration, in lines
MaxLines == 3

L_vn == Join(<<VN, D("0"), D("0"), D("2")>>)
L_vn34 == Join(<<VN, D("0"), D("3"), D("4")>>)
L_v == Join(<<V, D("1"), <<"-", "1">>, <<"0", ".", "5">>>>)
L_v7 == Join(<<V, <<"-", "1">>, D("1"), D("0"), D("9"), D("9"), D("9")>>)
L_f111 == Join(<<F, D("1"), D("1"), D("1")>>)
L_f212 == Join(<<F, D("2"), D("1"), D("2")>>)
L_fslash == Join(<<F, <<"1", "/", "2", "/", "3">>, <<"4", "/", "5", "/", "6">>,
                   <<"7", "/", "8", "/", "9">>>>)
L_fwrap == Join(<<F, D("0"), <<"-", "1">>, D("2")>>)
L_comment == Join(<<D("#"), <<"t", "h", "i", "s">>, <<"i", "s">>, V, D("1"), D("2"), D("3")>>)
L_vn3 == Join(<<VN, <<"1", ".", "0">>, <<"2", ".", "0">>>>)
L_empty == <<>>
L_vdouble == Join(<<V, D("1"), <<>>, D("2"), D("3")>>)
L_other == Join(<<D("g"), D("x")>>)
L_vntrail == Join(<<VN, D("0"), D("0"), <<"2", "#", "c">>>>)
L_vnbad == Join(<<VN, D("a"), D("0"), D("0")>>)

\* the lines the enumerated files are made of
Lines == {L_vn, L_vn34, L_v, L_v7, L_f111, L_f212, L_fslash, L_fwrap, L_comment, L_vn3,
          L_empty, L_vdouble, L_other, L_vntrail, L_vnbad}

\* the record `v x y z`
VLine(x, y, z) == Join(<<V, x, y, z>>)

\* a cube with its corners at +1 and -1 on each axis, one vn before each v
Cube == [open |-> TRUE, lines |-> <<
    L_vn, VLine(<<"-", "1">>, <<"-", "1">>, <<"-", "1">>),
    L_vn, VLine(<<"-", "1">>, <<"-", "1">>, D("1")),
    L_vn, VLine(<<"-", "1">>, D("1"), <<"-", "1">>),
    L_vn, VLine(<<"-", "1">>, D("1"), D("1")),
    L_vn, VLine(D("1"), <<"-", "1">>, <<"-", "1">>),
    L_vn, VLine(D("1"), <<"-", "1">>, D("1")),
    L_vn, VLine(D("1"), D("1"), <<"-", "1">>),
    L_vn, VLine(D("1"), D("1"), D("1")) >>]

\* one vertex given two positions, and a face that refers to the second
TwoPositions == [open |-> TRUE, lines |-> <<L_vn, L_v, L_v7, L_f212>>]

\* the streams parseOBJ is given: one that is not open, every open file of
\* at most MaxLines of the lines above, the cube and the file above
ParserInputs ==
    {NotOpen, Cube, TwoPositions}
    \cup {[open |-> TRUE, lines |-> ls] : ls \in UNION {[1..n -> Lines] : n \in 0..MaxLines}}

\* what parseOBJ never touches
lifecycle == <<m_loadingComplete, m_usingVprtShaders, handles, m_indexCount,
               m_modelConstantBufferData, tasks, context, usage>>

\* parseOBJ is entered: file.read counts the lines getline has returned
ParserInit ==
    /\ pc = "parsing"
    /\ \E in \in ParserInputs : file = [open |-> in.open, lines |-> in.lines, read |-> 0]
    /\ vertices = <<>> /\ indices = <<>>
    /\ MemberDefaults
    /\ tasks = EmptyBag
    /\ context = <<>>
    /\ usage = "idle"

\* if (!in.is_open()) return;
ReturnNotOpen ==
    /\ pc = "parsing"
    /\ ~file.open
    /\ pc' = "unopened"
    /\ UNCHANGED <<file, mesh, lifecycle>>

\* one iteration of while (in): getline, then the record of the line
ReadLine ==
    /\ pc = "parsing"
    /\ file.open
    /\ file.read < Len(file.lines)
    /\ \E lucky \in BOOLEAN :
         LET m == ParseLine(Mesh(vertices, indices, "ok"), file.lines[file.read + 1], lucky)
         IN  /\ vertices' = m.vertices
             /\ indices' = m.indices
             /\ pc' = IF m.status = "ok" THEN "parsing" ELSE m.status
    /\ file' = [file EXCEPT !.read = @ + 1]
    /\ UNCHANGED lifecycle

\* getline fails at the end of the stream: in.close(), the extrema, the
\* centering and scaling
CloseAndNormalize ==
    /\ pc = "parsing"
    /\ file.open
    /\ file.read = Len(file.lines)
    /\ file' = [file EXCEPT !.open = FALSE]
    /\ \E lucky \in BOOLEAN :
         IF vertices = <<>>
         THEN /\ pc' = IF lucky THEN "parsed" ELSE "crash"
              /\ UNCHANGED mesh
         ELSE /\ pc' = "parsed"
              /\ vertices' = Normalize(vertices)
              /\ UNCHANGED indices
    /\ UNCHANGED lifecycle

ParserNext == ReturnNotOpen \/ ReadLine \/ CloseAndNormalize

ParserSpec == ParserInit /\ [][ParserNext]_vars

\* the steps above compose to parseOBJ as the constructor calls it
ParserAgrees ==
    pc \in {"parsed", "unopened"} =>
        \E lucky \in BOOLEAN :
            parseOBJ(<<>>, <<>>, [open |-> pc = "parsed", lines |-> file.lines], lucky)
              = Mesh(vertices, indices, "ok")

\* ------------------------------------------------------------------------
\* Properties of the parser
\* ------------------------------------------------------------------------

\* the record of a line parseOBJ looks at: none for a line it skips as empty
\* or as a comment
RecordOf(line) ==
    IF line = <<>> \/ \E k \in 1..Len(line) : line[k] = "#" THEN <<>> ELSE Split(line)

AcceptedVN(line) == Len(RecordOf(line)) = 4 /\ RecordOf(line)[1] = <<"v", "n">>
AcceptedV(line) == Len(RecordOf(line)) \in {4, 7} /\ RecordOf(line)[1] = <<"v">>
AcceptedF(line) == Len(RecordOf(line)) = 4 /\ RecordOf(line)[1] = <<"f">>

\* the line a ReadLine step processes
CurrentLine == file.lines[file.read + 1]

C12_VOnEmptyFailsFast ==
    [][(ReadLine /\ vertices = <<>> /\ AcceptedV(CurrentLine)) => pc' \in {"crash", "throw"}]_vars

\* C13 as stated: an open stream that yields no vertex never makes parseOBJ
\* return normally: the bounding-box step fails. (Refuted: max_element of the
\* empty vector is dereferenced, undefined behaviour, nothing checks.)
C13_NoVertexFailsFast ==
    ~(pc = "parsed" /\ vertices = <<>>)

\* the accepted records of each kind among the first n lines
NumVN(lines, n) == Cardinality({i \in 1..n : AcceptedVN(lines[i])})
NumV(lines, n) == Cardinality({i \in 1..n : AcceptedV(lines[i])})

\* the three references of the `f` lines of the enumeration, in file order
FaceRefs(line) ==
    CASE line = L_f111 -> <<1, 1, 1>>
      [] line = L_f212 -> <<2, 1, 2>>
      [] line = L_fslash -> <<1, 4, 7>>
      [] line = L_fwrap -> <<0, -1, 2>>

\* every `v` has a `vn` before it, and every face reference is a number from
\* 1 to `count`
WellFormedUpTo(lines, count) ==
    /\ \A i \in 1..Len(lines) :
          AcceptedV(lines[i]) => \E j \in 1..(i - 1) : AcceptedVN(lines[j])
    /\ \A i \in 1..Len(lines) :
          AcceptedF(lines[i]) => \A k \in 1..3 : FaceRefs(lines[i])[k] \in 1..count

IndicesInRange ==
    /\ Len(indices) % 3 = 0
    /\ \A k \in 1..Len(indices) : ULess(indices[k], Len(vertices))

\* C14 as stated: after parseOBJ of an input in which every `v` is preceded
\* by a `vn` and every face reference is a 1-based number of an existing `v`
\* record, indices has a multiple of 3 entries, each less than the number of
\* vertices. (Refuted: two `v` records after one `vn` are one vertex.)
C14_IndicesInRange_AsStated ==
    (pc = "parsed" /\ WellFormedUpTo(file.lines, NumV(file.lines, Len(file.lines))))
        => IndicesInRange

\* C14 amended: the same when every face reference is a 1-based number of an
\* existing vertex, that is at most the number of accepted `vn` records of the
\* file; and indices has a multiple of 3 entries after every processed line of
\* any input.
C14_IndicesInRange ==
    /\ (pc = "parsed" /\ WellFormedUpTo(file.lines, NumVN(file.lines, Len(file.lines))))
          => IndicesInRange
    /\ Len(indices) % 3 = 0

\* a vertex and a face on it have been parsed
C14_Witness ==
    /\ pc = "parsed" /\ file.lines = <<L_vn, L_v, L_f111>>
    /\ Len(vertices) = 1 /\ indices = <<<<0, 0>>, <<0, 0>>, <<0, 0>>>>

\* C15: an accepted `f` record whose references are the 1-based integers
\* a, b, c appends exactly (c - 1, b - 1, a - 1) to indices and leaves the
\* earlier indices and the vertices as they were.
C15_FaceWinding ==
    [][(ReadLine /\ AcceptedF(CurrentLine) /\ \A k \in 1..3 : FaceRefs(CurrentLine)[k] >= 1) =>
          LET a == FaceRefs(CurrentLine)[1]
              b == FaceRefs(CurrentLine)[2]
              c == FaceRefs(CurrentLine)[3]
          IN  /\ indices' = indices \o <<<<0, c - 1>>, <<0, b - 1>>, <<0, a - 1>>>>
              /\ vertices' = vertices
              /\ pc' = "parsing"]_vars

\* `f 2 1 2` has been appended as (1, 0, 1) behind an earlier triple
C15_Witness ==
    /\ file.read >= 1 /\ file.lines[file.read] = L_f212
    /\ Len(indices) = 6
    /\ SubSeq(indices, 4, 6) = <<<<0, 1>>, <<0, 0>>, <<0, 1>>>>

\* C16 as stated: parsing `f 1/2/3 4/5/6 7/8/9` appends (6, 4, 1).
\* (Refuted: the references are 1, 4, 7.)
C16_SlashFace_AsStated ==
    [][(ReadLine /\ CurrentLine = L_fslash) =>
          indices' = indices \o <<<<0, 6>>, <<0, 4>>, <<0, 1>>>>]_vars

\* C16 amended: parsing `f 1/2/3 4/5/6 7/8/9` appends (6, 3, 0): the
\* references 1, 4, 7 cut at the first `/`, each less 1, in reverse order.
C16_SlashFace ==
    [][(ReadLine /\ CurrentLine = L_fslash) =>
          (indices' = indices \o <<<<0, 6>>, <<0, 3>>, <<0, 0>>>> /\ pc' = "parsing")]_vars

\* the single record has been parsed
C16_Witness ==
    /\ file.lines = <<L_fslash>> /\ file.read = 1
    /\ indices = <<<<0, 6>>, <<0, 3>>, <<0, 0>>>>

\* a line parseOBJ skips: empty, with a # anywhere, with a first token that
\* is no tag, or a record with the wrong number of tokens
Skipped(line) ==
    \/ line = <<>>
    \/ \E k \in 1..Len(line) : line[k] = "#"
    \/ LET rec == Split(line)
       IN  \/ rec = <<>>
           \/ rec[1] \notin {<<"v">>, <<"v", "n">>, <<"f">>}
           \/ rec[1] \in {<<"v", "n">>, <<"f">>} /\ Len(rec) # 4
           \/ rec[1] = <<"v">> /\ Len(rec) \notin {4, 7}

\* C17: a skipped line (empty, containing #, of another tag, or a record
\* with the wrong token count, tokens split at every single space) changes
\* neither the vertices nor the indices and raises no error, whatever has been
\* accumulated.
C17_SkippedLines ==
    /\ [][(ReadLine /\ Skipped(CurrentLine)) => (UNCHANGED mesh /\ pc' = "parsing")]_vars
    /\ [](\A line \in {L_comment, L_vn3, L_empty, L_vdouble, L_other, L_vntrail} : Skipped(line))
    /\ [](Len(Split(L_vdouble)) = 5 /\ Len(Split(L_vn3)) = 3)

\* `vn 1.0 2.0` has been skipped behind a vertex and a face
C17_Witness ==
    /\ file.read = 3 /\ file.lines = <<L_vn, L_f111, L_vn3>>
    /\ pc = "parsing" /\ Len(vertices) = 1 /\ Len(indices) = 3

\* the recomputed center and span of the positions on one axis
Center(vs, axis) == FDiv(FAdd(MaxPos(vs, axis), MinPos(vs, axis)), Two)
Span(vs, axis) == FSub(MaxPos(vs, axis), MinPos(vs, axis))

CubeRead == file.lines = Cube.lines /\ file.read = Len(Cube.lines)

\* C18 as stated: the cube with corners at +1 and -1 normalizes to a center
\* of 0 and a span of the original span / 5 = 2/5 on each axis. (Refuted: the
\* positions are divided by 5 times the span.)
C18_CubeSpan_AsStated ==
    (pc = "parsed" /\ CubeRead) =>
        \A axis \in 1..3 : Center(vertices, axis) = Zero /\ Span(vertices, axis) = <<2, 5>>

\* C18 amended: the cube with corners at +1 and -1 (center 0, span 2 on each
\* axis) normalizes to positions of center 0 and span 1/5 on each axis: the
\* original span divided by 5 times itself.
C18_CubeSpan ==
    /\ (pc = "parsing" /\ CubeRead) =>
          \A axis \in 1..3 : Center(vertices, axis) = Zero /\ Span(vertices, axis) = <<2, 1>>
    /\ (pc = "parsed" /\ CubeRead) =>
          \A axis \in 1..3 : Center(vertices, axis) = Zero /\ Span(vertices, axis) = <<1, 5>>

\* the cube is normalized: its first corner is at -1/10 on each axis
C18_Witness ==
    /\ pc = "parsed" /\ CubeRead /\ Len(vertices) = 8
    /\ vertices[1].pos = <<<<-1, 10>>, <<-1, 10>>, <<-1, 10>>>>
    /\ vertices[8].pos = <<<<1, 10>>, <<1, 10>>, <<1, 10>>>>

\* the position of the `v` lines of the enumeration
PositionOf(line) ==
    CASE line = L_v -> <<<<1, 1>>, <<-1, 1>>, <<1, 2>>>>
      [] line = L_v7 -> <<<<-1, 1>>, <<1, 1>>, <<0, 1>>>>

\* C19: while parsing, the number of vertices is the number of accepted `vn`
\* records processed; an accepted `vn` appends one vertex; an accepted `v`
\* keeps the count and overwrites only the position of the last vertex (its
\* colour and the other vertices stay), so the last of several `v` wins and
\* the r, g, b of a 7-token `v` are stored nowhere.
C19_VertexCount ==
    /\ [](pc \in {"parsing", "parsed"} => Len(vertices) = NumVN(file.lines, file.read))
    /\ [][(ReadLine /\ AcceptedVN(CurrentLine) /\ pc' = "parsing") =>
            /\ Len(vertices') = Len(vertices) + 1
            /\ SubSeq(vertices', 1, Len(vertices)) = vertices
            /\ indices' = indices]_vars
    /\ [][(ReadLine /\ AcceptedV(CurrentLine) /\ pc' = "parsing") =>
            /\ Len(vertices') = Len(vertices)
            /\ indices' = indices
            /\ \A i \in 1..Len(vertices) :
                  /\ vertices'[i].color = vertices[i].color
                  /\ i < Len(vertices) => vertices'[i] = vertices[i]
            /\ (vertices # <<>> /\ CurrentLine \in {L_v, L_v7}) =>
                  vertices'[Len(vertices)].pos = PositionOf(CurrentLine)]_vars

\* two positions given to one vertex: the second is kept, the normal stays
C19_Witness ==
    /\ pc = "parsing" /\ file.lines = <<L_vn34, L_v, L_v7>> /\ file.read = 3
    /\ Len(vertices) = 1
    /\ vertices[1].pos = <<<<-1, 1>>, <<1, 1>>, <<0, 1>>>>
    /\ vertices[1].color = [num |-> <<<<0, 1>>, <<3, 5>>, <<4, 5>>>>, len2 |-> <<1, 1>>]

\* x modulo 2^32 as two 16-bit halves
Mod32(x) == <<(x \div Half) % Half, x % Half>>

\* C20: every index an accepted `f` record stores is its reference less 1
\* modulo 2^32, with no range check and no error: a reference 0 stores
\* 4294967295 = <<65535, 65535>>, a reference -1 stores 4294967294, and three
\* indices are appended all the same.
C20_IndexWraps ==
    /\ [][(ReadLine /\ AcceptedF(CurrentLine)) =>
            /\ pc' = "parsing"
            /\ Len(indices') = Len(indices) + 3
            /\ SubSeq(indices', 1, Len(indices)) = indices
            /\ \A k \in 1..3 :
                  indices'[Len(indices) + k] = Mod32(FaceRefs(CurrentLine)[4 - k] - 1)]_vars
    /\ [][(ReadLine /\ CurrentLine = L_fwrap) =>
            SubSeq(indices', Len(indices) + 1, Len(indices) + 3)
               = <<<<0, 1>>, <<65535, 65534>>, <<65535, 65535>>>>]_vars

\* `f 0 -1 2` has been parsed, with no vertex at all
C20_Witness ==
    /\ pc = "parsing" /\ file.lines = <<L_fwrap>> /\ file.read = 1
    /\ vertices = <<>>
    /\ indices = <<<<0, 1>>, <<65535, 65534>>, <<65535, 65535>>>>

====
